---- MODULE Spec2Model ----
(***************************************************************************)
(* Admin route handlers of the medusa backend: update customer, update     *)
(* return reason, confirm order edit.  Every handler is an async function; *)
(* each await is a point where other requests may run, so a handler is a   *)
(* sequence of atomic steps driven by a program counter.                   *)
(***************************************************************************)
EXTENDS Integers, Sequences, FiniteSets, TLC

\* ---- bounds ----
NumReqs == 2
MaxExpandLen == 2

Reqs == 1..NumReqs

\* ---- value domains ----
\* undefined / null / absent property
Null == "null"
\* a value that is not a string (a number, an array, ...)
NotAString == "not_a_string"
\* a string that is not an email address
NotAnEmail == "not-an-email"
Emails == {"a@b.com", "c@d.com"}
Names == {"Dolly"}
Labels == {"Damaged"}
UserIds == {"usr_1", "usr_2"}
ExistingIds == {"cus_1", "rr_1", "oe_1"}
MissingId == "missing"

\* strings of the expand parameter are sequences of characters; an absent
\* parameter and a non-string parameter are one-symbol sequences of their own
Chars == {"a", ","}
NoExpand == <<"undefined">>
NonStringExpand == <<"not_a_string">>
RECURSIVE StringsUpTo(_)
StringsUpTo(n) ==
  IF n = 0 THEN {<<>>}
  ELSE LET shorter == StringsUpTo(n - 1)
       IN shorter \cup {Append(s, c) : s \in {t \in shorter : Len(t) = n - 1}, c \in Chars}
ExpandStrings == StringsUpTo(MaxExpandLen)

\* String.prototype.split(","): one field per comma, empty fields kept
RECURSIVE Split(_)
Split(s) ==
  IF s = <<>> THEN << <<>> >>
  ELSE LET rest == Split(Tail(s))
       IN IF Head(s) = ","
            THEN << <<>> >> \o rest
            ELSE << <<Head(s)>> \o Head(rest) >> \o Tail(rest)

\* relation and field lists of the route index files (names are symbols)
defaultAdminCustomersRelations == << <<"orders">>, <<"shipping_addresses">> >>
defaultAdminReturnReasonsFields == << <<"id">>, <<"label">>, <<"value">> >>
defaultAdminReturnReasonsRelations == << <<"parent_return_reason">> >>
defaultOrderEditFields == << <<"id">>, <<"confirmed_by">>, <<"status">> >>
defaultOrderEditRelations == << <<"changes">>, <<"items">> >>

\* ---- class-validator decorators ----
IsOptional(v) == v = Null
IsString(v) == v # NotAString
IsEmail(v) == v \in Emails

\* (variant: email without @IsEmail)
ValidCustomerBody_NoIsEmail(body) ==
  IsOptional(body.first_name) \/ IsString(body.first_name)

\* AdminPostCustomersCustomerReq: email is @IsEmail @IsOptional,
\* first_name is @IsString @IsOptional
ValidCustomerBody(body) ==
  /\ IsOptional(body.email) \/ IsEmail(body.email)
  /\ IsOptional(body.first_name) \/ IsString(body.first_name)

\* AdminPostReturnReasonsReasonReq: label is @IsOptional @IsString
ValidReturnReasonBody(body) ==
  IsOptional(body.label) \/ IsString(body.label)

\* FindParams: expand is @IsString @IsOptional
ValidFindParams(query) ==
  query.expand = NoExpand \/ query.expand # NonStringExpand

\* JavaScript truthiness of an optional string
Truthy(v) == v # Null /\ v # ""
TruthyExpand(v) == v # NoExpand /\ v # <<>>

\* ---- state ----
VARIABLES
  db,        \* the committed rows: customer, reason, orderEdit, order
  pc,        \* pc[r]: position of request r in its handler
  inp,       \* inp[r]: the request (handler, params.id, body, query, user)
  customer,  \* customer[r]: the handler's local `customer` read before the guard
  tx,        \* tx[r]: the transaction of r: open or not, and its uncommitted writes
  userId,    \* userId[r]: the handler's local `userId` (confirm order edit)
  res,       \* res[r]: the response sent, or the error thrown
  hist       \* hist[r]: counts of the service calls made by r

vars == <<db, pc, inp, customer, userId, tx, res, hist>>

NoHist == [retrieves |-> 0, opened |-> 0, mutations |-> 0, mutationsInTx |-> 0,
           commits |-> 0, rollbacks |-> 0]

NoInput == [handler |-> "none"]
NoCustomer == [email |-> Null, has_account |-> FALSE, first_name |-> Null]
NoTx == [open |-> FALSE, writes |-> Null]
NoRes == [status |-> 0, error |-> Null, key |-> Null, entity |-> Null,
          select |-> <<>>, relations |-> <<>>]

Bump(h, f) == [h EXCEPT ![f] = @ + 1]

Init ==
  /\ \E status \in {"requested", "declined"} :
       db = [customer |-> [email |-> "a@b.com", has_account |-> FALSE, first_name |-> Null],
             reason |-> [label |-> "Broken", value |-> "rsn"],
             orderEdit |-> [status |-> status, confirmed_by |-> Null],
             order |-> [total |-> 0]]
  /\ pc = [r \in Reqs |-> "idle"]
  /\ inp = [r \in Reqs |-> NoInput]
  /\ customer = [r \in Reqs |-> NoCustomer]
  /\ userId = [r \in Reqs |-> Null]
  /\ tx = [r \in Reqs |-> NoTx]
  /\ res = [r \in Reqs |-> NoRes]
  /\ hist = [r \in Reqs |-> NoHist]

\* a thrown error reaches the HTTP layer: the handler stops
Throw(r, type) ==
  /\ pc' = [pc EXCEPT ![r] = "failed"]
  /\ res' = [res EXCEPT ![r] = [NoRes EXCEPT !.error = type]]

\* ---- services (customer, return reason, order edit) ----
\* retrieve(id): the row, or a not-found error for an unknown id
Exists(id) == id \in ExistingIds

\* update(id, data): the fields present in data replace those of the row, the
\* other fields of the row are kept
ApplyUpdate(row, data) ==
  [f \in DOMAIN row |-> IF f \in DOMAIN data /\ data[f] # Null THEN data[f] ELSE row[f]]

\* ---- manager.transaction(callback) ----
\* the callback's writes stay private to the transaction until it commits;
\* when the callback rejects, the transaction rolls back and rejects as well
\* (variant: the service is called without an open transaction)
OpenTx_NotOpened == [open |-> FALSE, writes |-> Null]
OpenTx == [open |-> TRUE, writes |-> Null]
Stage(t, w) == [t EXCEPT !.writes = w]

\* (variant: the rejection is caught and the handler goes on to its reload)
OnTxError_Swallowed(r, type) ==
  /\ pc' = [pc EXCEPT ![r] = CASE inp[r].handler = "customer" -> "uc_reload"
                                [] inp[r].handler = "reason" -> "rr_reload"
                                [] OTHER -> "oe_reload"]
  /\ res' = res

\* the handlers await manager.transaction without a try/catch: its rejection
\* is the handler's rejection
OnTxError(r, type) == Throw(r, type)

\* order edits that confirm() accepts, and what confirming adds to the order
Confirmable == {"created", "requested"}
EditDelta == 1

\* decorateTotals(orderEdit): the totals are computed from the current items
DecorateTotals(orderEdit, order) ==
  [status |-> orderEdit.status, confirmed_by |-> orderEdit.confirmed_by,
   total |-> order.total]

\* ---- update customer handler ----
CustomerRequests(Ids, Bodies, Queries) ==
  [handler : {"customer"}, id : Ids, body : Bodies, query : Queries]

\* lines 84-87: params.id, validator(body), validator(query)
UC_Validate(r, req) ==
  /\ pc[r] = "idle"
  /\ req.handler = "customer"
  /\ inp' = [inp EXCEPT ![r] = req]
  /\ IF ValidCustomerBody(req.body) /\ ValidFindParams(req.query)
       THEN /\ pc' = [pc EXCEPT ![r] = "uc_retrieve"]
            /\ res' = res
       ELSE Throw(r, "invalid_request")
  /\ UNCHANGED <<db, customer, userId, tx, hist>>

\* (variant: the flag is tested the wrong way round)
EmailGuard_Negated(validatedBody, cust) == Truthy(validatedBody.email) /\ ~cust.has_account

\* (variant: only an email that differs from the stored one is refused)
EmailGuard_Compared(validatedBody, cust) ==
  Truthy(validatedBody.email) /\ validatedBody.email # cust.email /\ cust.has_account

\* line 93: the guard on the validated body and the customer read before it
EmailGuard(validatedBody, cust) == Truthy(validatedBody.email) /\ cust.has_account

\* lines 89-98: retrieve the customer, then the guard
UC_Retrieve(r) ==
  /\ pc[r] = "uc_retrieve"
  /\ hist' = [hist EXCEPT ![r] = Bump(@, "retrieves")]
  /\ IF ~Exists(inp[r].id)
       THEN /\ Throw(r, "not_found")
            /\ customer' = customer
       ELSE /\ customer' = [customer EXCEPT ![r] = db.customer]
            /\ IF EmailGuard(inp[r].body, db.customer)
                 THEN Throw(r, "invalid_data")
                 ELSE /\ pc' = [pc EXCEPT ![r] = "uc_begin"]
                      /\ res' = res
  /\ UNCHANGED <<db, inp, userId, tx>>

\* lines 100-101: manager.transaction opens a transaction
UC_Begin(r) ==
  /\ pc[r] = "uc_begin"
  /\ tx' = [tx EXCEPT ![r] = OpenTx]
  /\ hist' = [hist EXCEPT ![r] = Bump(@, "opened")]
  /\ pc' = [pc EXCEPT ![r] = "uc_update"]
  /\ UNCHANGED <<db, inp, customer, userId, res>>

\* lines 102-104: customerService.withTransaction(tm).update(id, validatedBody)
UC_Update(r) ==
  /\ pc[r] = "uc_update"
  /\ hist' = [hist EXCEPT ![r] =
                Bump(IF tx[r].open THEN Bump(@, "mutationsInTx") ELSE @, "mutations")]
  /\ tx' = [tx EXCEPT ![r] = Stage(@, inp[r].body)]
  /\ pc' = [pc EXCEPT ![r] = "uc_commit"]
  /\ UNCHANGED <<db, inp, customer, userId, res>>

\* line 105: the callback resolved, the transaction commits
UC_Commit(r) ==
  /\ pc[r] = "uc_commit"
  /\ db' = [db EXCEPT !.customer = ApplyUpdate(@, tx[r].writes)]
  /\ tx' = [tx EXCEPT ![r] = NoTx]
  /\ hist' = [hist EXCEPT ![r] = Bump(@, "commits")]
  /\ pc' = [pc EXCEPT ![r] = "uc_reload"]
  /\ UNCHANGED <<inp, customer, userId, res>>

\* line 105: the save or the commit failed, the transaction rolls back
UC_Rollback(r) ==
  /\ pc[r] = "uc_commit"
  /\ tx' = [tx EXCEPT ![r] = NoTx]
  /\ hist' = [hist EXCEPT ![r] = Bump(@, "rollbacks")]
  /\ OnTxError(r, "unexpected")
  /\ UNCHANGED <<db, inp, customer, userId>>

\* (variant: expand is used as one relation name, without split)
CustomerRelations_NoSplit(validatedQuery) ==
  IF TruthyExpand(validatedQuery.expand)
    THEN <<validatedQuery.expand>>
    ELSE defaultAdminCustomersRelations

\* lines 107-116: the relations of the reload
CustomerRelations(validatedQuery) ==
  LET expandFields == IF TruthyExpand(validatedQuery.expand)
                        THEN Split(validatedQuery.expand)
                        ELSE <<>>
  IN IF Len(expandFields) # 0 THEN expandFields ELSE defaultAdminCustomersRelations

\* (variant: the response is built from the customer read before the guard)
ReloadCustomer_Stale(r) == ApplyUpdate(customer[r], inp[r].body)

\* line 118: the read of the reload is made outside the transaction
ReloadCustomer(r) == db.customer

\* lines 107-120: reload and respond
UC_Reload(r) ==
  /\ pc[r] = "uc_reload"
  /\ hist' = [hist EXCEPT ![r] = Bump(@, "retrieves")]
  /\ res' = [res EXCEPT ![r] = [status |-> 200, error |-> Null, key |-> "customer",
                                entity |-> ReloadCustomer(r), select |-> <<>>,
                                relations |-> CustomerRelations(inp[r].query)]]
  /\ pc' = [pc EXCEPT ![r] = "done"]
  /\ UNCHANGED <<db, inp, customer, userId, tx>>

\* ---- update return reason handler ----
ReasonRequests(Ids, Bodies, Queries) ==
  [handler : {"reason"}, id : Ids, body : Bodies, query : Queries]

\* lines 75-77: params.id, validator(body); req.query is not read
RR_Validate(r, req) ==
  /\ pc[r] = "idle"
  /\ req.handler = "reason"
  /\ inp' = [inp EXCEPT ![r] = req]
  /\ IF ValidReturnReasonBody(req.body)
       THEN /\ pc' = [pc EXCEPT ![r] = "rr_begin"]
            /\ res' = res
       ELSE Throw(r, "invalid_request")
  /\ UNCHANGED <<db, customer, userId, tx, hist>>

\* lines 83-84: manager.transaction opens a transaction
RR_Begin(r) ==
  /\ pc[r] = "rr_begin"
  /\ tx' = [tx EXCEPT ![r] = OpenTx]
  /\ hist' = [hist EXCEPT ![r] = Bump(@, "opened")]
  /\ pc' = [pc EXCEPT ![r] = "rr_update"]
  /\ UNCHANGED <<db, inp, customer, userId, res>>

\* lines 85-87: returnReasonService.withTransaction(tm).update(id, validated);
\* an unknown id rejects inside the callback and the transaction rolls back
RR_Update(r) ==
  /\ pc[r] = "rr_update"
  /\ IF Exists(inp[r].id)
       THEN /\ hist' = [hist EXCEPT ![r] =
                  Bump(IF tx[r].open THEN Bump(@, "mutationsInTx") ELSE @, "mutations")]
            /\ tx' = [tx EXCEPT ![r] = Stage(@, inp[r].body)]
            /\ pc' = [pc EXCEPT ![r] = "rr_commit"]
            /\ res' = res
       ELSE /\ hist' = [hist EXCEPT ![r] =
                  Bump(Bump(IF tx[r].open THEN Bump(@, "mutationsInTx") ELSE @,
                            "mutations"), "rollbacks")]
            /\ tx' = [tx EXCEPT ![r] = NoTx]
            /\ OnTxError(r, "not_found")
  /\ UNCHANGED <<db, inp, customer, userId>>

\* line 88: the callback resolved, the transaction commits
RR_Commit(r) ==
  /\ pc[r] = "rr_commit"
  /\ db' = [db EXCEPT !.reason = ApplyUpdate(@, tx[r].writes)]
  /\ tx' = [tx EXCEPT ![r] = NoTx]
  /\ hist' = [hist EXCEPT ![r] = Bump(@, "commits")]
  /\ pc' = [pc EXCEPT ![r] = "rr_reload"]
  /\ UNCHANGED <<inp, customer, userId, res>>

\* line 88: the save or the commit failed, the transaction rolls back
RR_Rollback(r) ==
  /\ pc[r] = "rr_commit"
  /\ tx' = [tx EXCEPT ![r] = NoTx]
  /\ hist' = [hist EXCEPT ![r] = Bump(@, "rollbacks")]
  /\ OnTxError(r, "unexpected")
  /\ UNCHANGED <<db, inp, customer, userId>>

\* (variant: the relations follow the expand parameter as in the customer route)
ReasonRelations_Expand(query) ==
  IF TruthyExpand(query.expand) THEN Split(query.expand)
  ELSE defaultAdminReturnReasonsRelations

\* lines 90-93: the projection of the reload, whatever the query is
ReasonSelect(query) == defaultAdminReturnReasonsFields
ReasonRelations(query) == defaultAdminReturnReasonsRelations

\* line 90: the read of the reload is made outside the transaction
ReloadReason(r) == db.reason

\* lines 90-95: reload and respond
RR_Reload(r) ==
  /\ pc[r] = "rr_reload"
  /\ hist' = [hist EXCEPT ![r] = Bump(@, "retrieves")]
  /\ res' = [res EXCEPT ![r] = [status |-> 200, error |-> Null, key |-> "return_reason",
                                entity |-> ReloadReason(r),
                                select |-> ReasonSelect(inp[r].query),
                                relations |-> ReasonRelations(inp[r].query)]]
  /\ pc' = [pc EXCEPT ![r] = "done"]
  /\ UNCHANGED <<db, inp, customer, userId, tx>>

\* ---- confirm order edit handler ----
NoUser == [present |-> FALSE, id |-> Null, userId |-> Null]
Users(PrimaryIds, SecondaryIds) ==
  [present : {TRUE}, id : PrimaryIds, userId : SecondaryIds] \cup {NoUser}
OrderEditRequests(Ids, Us) ==
  [handler : {"order_edit"}, id : Ids, user : Us]

\* a?.f is undefined when a is absent; a ?? b is b when a is null or undefined
OptionalChain(u, f) == IF u.present THEN u[f] ELSE Null
NullishCoalesce(a, b) == IF a # Null THEN a ELSE b

\* (variant: || in place of ??)
ResolveUserId_Or(user) ==
  IF Truthy(OptionalChain(user, "id")) THEN OptionalChain(user, "id")
  ELSE OptionalChain(user, "userId")

\* line 66: req.user?.id ?? req.user?.userId
ResolveUserId(user) ==
  NullishCoalesce(OptionalChain(user, "id"), OptionalChain(user, "userId"))

\* lines 58-68: params.id, the services, userId, manager.transaction opens
OE_Begin(r, req) ==
  /\ pc[r] = "idle"
  /\ req.handler = "order_edit"
  /\ inp' = [inp EXCEPT ![r] = req]
  /\ userId' = [userId EXCEPT ![r] = ResolveUserId(req.user)]
  /\ tx' = [tx EXCEPT ![r] = OpenTx]
  /\ hist' = [hist EXCEPT ![r] = Bump(@, "opened")]
  /\ pc' = [pc EXCEPT ![r] = "oe_confirm"]
  /\ UNCHANGED <<db, customer, res>>

\* lines 69-71: orderEditService.withTransaction(tm).confirm(id, {confirmedBy});
\* an unknown id or an order edit that cannot be confirmed rejects inside the
\* callback and the transaction rolls back
OE_Confirm(r) ==
  /\ pc[r] = "oe_confirm"
  /\ IF Exists(inp[r].id) /\ db.orderEdit.status \in Confirmable
       THEN /\ hist' = [hist EXCEPT ![r] =
                  Bump(IF tx[r].open THEN Bump(@, "mutationsInTx") ELSE @, "mutations")]
            /\ tx' = [tx EXCEPT ![r] = Stage(@, [confirmedBy |-> userId[r]])]
            /\ pc' = [pc EXCEPT ![r] = "oe_commit"]
            /\ res' = res
       ELSE /\ hist' = [hist EXCEPT ![r] =
                  Bump(Bump(IF tx[r].open THEN Bump(@, "mutationsInTx") ELSE @,
                            "mutations"), "rollbacks")]
            /\ tx' = [tx EXCEPT ![r] = NoTx]
            /\ OnTxError(r, IF Exists(inp[r].id) THEN "not_allowed" ELSE "not_found")
  /\ UNCHANGED <<db, inp, customer, userId>>

\* line 72: the callback resolved, the transaction commits: the order edit is
\* confirmed, stamped with the actor, and its changes are applied to the order
OE_Commit(r) ==
  /\ pc[r] = "oe_commit"
  /\ db' = [db EXCEPT !.orderEdit = [status |-> "confirmed",
                                     confirmed_by |-> tx[r].writes.confirmedBy],
                      !.order.total = @ + EditDelta]
  /\ tx' = [tx EXCEPT ![r] = NoTx]
  /\ hist' = [hist EXCEPT ![r] = Bump(@, "commits")]
  /\ pc' = [pc EXCEPT ![r] = "oe_reload"]
  /\ UNCHANGED <<inp, customer, userId, res>>

\* line 72: the save or the commit failed, the transaction rolls back
OE_Rollback(r) ==
  /\ pc[r] = "oe_commit"
  /\ tx' = [tx EXCEPT ![r] = NoTx]
  /\ hist' = [hist EXCEPT ![r] = Bump(@, "rollbacks")]
  /\ OnTxError(r, "unexpected")
  /\ UNCHANGED <<db, inp, customer, userId>>

\* lines 74-78: the read of the reload is made outside the transaction, and
\* the totals are decorated on what was read
ReloadOrderEdit(r) == DecorateTotals(db.orderEdit, db.order)

\* lines 74-80: reload, decorate and respond (res.json: status 200)
OE_Reload(r) ==
  /\ pc[r] = "oe_reload"
  /\ hist' = [hist EXCEPT ![r] = Bump(@, "retrieves")]
  /\ res' = [res EXCEPT ![r] = [status |-> 200, error |-> Null, key |-> "order_edit",
                                entity |-> ReloadOrderEdit(r),
                                select |-> defaultOrderEditFields,
                                relations |-> defaultOrderEditRelations]]
  /\ pc' = [pc EXCEPT ![r] = "done"]
  /\ UNCHANGED <<db, inp, customer, userId, tx>>

\* ---- other writers ----
\* the customer registers an account (a committed write of another route)
RegisterAccount ==
  /\ ~db.customer.has_account
  /\ db.customer.email # Null
  /\ db' = [db EXCEPT !.customer.has_account = TRUE]
  /\ UNCHANGED <<pc, inp, customer, userId, tx, res, hist>>

\* ---- the requests of the two specifications ----
\* concurrent requests on the same rows
ConcurrentRequests ==
  CustomerRequests({"cus_1"}, [email : Emails \cup {Null}, first_name : {Null}],
                   [expand : {NoExpand}])
  \cup ReasonRequests({"rr_1", MissingId}, [label : Labels], [expand : {NoExpand}])
  \cup OrderEditRequests({"oe_1", MissingId}, {[present |-> TRUE, id |-> "usr_1", userId |-> Null]})

\* one request with every shape of input
AnyRequests ==
  CustomerRequests({"cus_1", MissingId},
                   [email : Emails \cup {Null, NotAnEmail}, first_name : Names \cup {Null, NotAString}],
                   [expand : ExpandStrings \cup {NoExpand, NonStringExpand}])
  \cup ReasonRequests({"rr_1", MissingId}, [label : Labels \cup {Null, NotAString}],
                      [expand : ExpandStrings \cup {NoExpand, NonStringExpand}])
  \cup OrderEditRequests({"oe_1", MissingId}, Users(UserIds \cup {Null, ""}, UserIds \cup {Null}))

Step(R, Requests) ==
  \/ \E r \in R, req \in Requests : UC_Validate(r, req)
  \/ \E r \in R : UC_Retrieve(r)
  \/ \E r \in R : UC_Begin(r)
  \/ \E r \in R : UC_Update(r)
  \/ \E r \in R : UC_Commit(r)
  \/ \E r \in R : UC_Rollback(r)
  \/ \E r \in R : UC_Reload(r)
  \/ \E r \in R, req \in Requests : RR_Validate(r, req)
  \/ \E r \in R : RR_Begin(r)
  \/ \E r \in R : RR_Update(r)
  \/ \E r \in R : RR_Commit(r)
  \/ \E r \in R : RR_Rollback(r)
  \/ \E r \in R : RR_Reload(r)
  \/ \E r \in R, req \in Requests : OE_Begin(r, req)
  \/ \E r \in R : OE_Confirm(r)
  \/ \E r \in R : OE_Commit(r)
  \/ \E r \in R : OE_Rollback(r)
  \/ \E r \in R : OE_Reload(r)
  \/ RegisterAccount

Next == Step(Reqs, ConcurrentRequests)

Spec == Init /\ [][Next]_vars

NextInputs == Step({r \in Reqs : \A q \in Reqs : r <= q}, AnyRequests)

SpecInputs == Init /\ [][NextInputs]_vars

\* ---- properties ----
IsCustomer(r) == inp[r].handler = "customer"
IsReason(r) == inp[r].handler = "reason"
IsOrderEdit(r) == inp[r].handler = "order_edit"
\* the handler of r has read the customer for its guard
GuardRead(r) == IsCustomer(r) /\ hist[r].retrieves >= 1 /\ Exists(inp[r].id)

\* C1: an update-customer request that carries an email different from the
\* stored one, for a customer read with has_account true, is rejected with an
\* invalid-data error; it opens no transaction, never calls update and never
\* writes the customer.
C1_AccountEmailChangeRejected ==
  \A r \in Reqs :
    (/\ GuardRead(r)
     /\ customer[r].has_account
     /\ inp[r].body.email # Null
     /\ inp[r].body.email # customer[r].email)
    => /\ pc[r] = "failed"
       /\ res[r].error = "invalid_data"
       /\ res[r].status # 200
       /\ ~tx[r].open
       /\ hist[r].opened = 0
       /\ hist[r].mutations = 0
       /\ hist[r].commits = 0

C1_Witness ==
  \E r \in Reqs :
    /\ GuardRead(r)
    /\ customer[r].has_account
    /\ inp[r].body.email # Null
    /\ inp[r].body.email # customer[r].email
    /\ res[r].error = "invalid_data"
    /\ db.customer = customer[r]

\* C2: no step changes the stored email of the customer while the stored
\* has_account is true.
C2_NoEmailChangeOnceRegistered ==
  [][db.customer.has_account => db'.customer.email = db.customer.email]_vars

\* C3: a request mutates only inside its transaction and at most once; a
\* request that completed opened exactly one transaction, made exactly one
\* mutating call, inside it, and committed once.
C3_OneMutationInOneTransaction ==
  \A r \in Reqs :
    /\ hist[r].mutations = hist[r].mutationsInTx
    /\ hist[r].mutations <= 1
    /\ hist[r].opened <= 1
    /\ hist[r].commits <= hist[r].mutations
    /\ (hist[r].mutations = 1 /\ hist[r].commits = 0 /\ hist[r].rollbacks = 0 => tx[r].open)
    /\ (pc[r] = "done" => /\ hist[r].opened = 1
                          /\ hist[r].mutations = 1
                          /\ hist[r].commits = 1
                          /\ hist[r].rollbacks = 0
                          /\ ~tx[r].open)

C3_Witness ==
  \E r, q \in Reqs :
    /\ pc[r] = "done" /\ pc[q] = "done"
    /\ IsCustomer(r) /\ IsOrderEdit(q)
    /\ hist[r].mutations = 1 /\ hist[q].mutations = 1

\* C4: when the service call inside the transaction fails, the step that
\* rolls back leaves the stored rows as they were, and from then on the
\* request has failed with that error: nothing committed, one transaction,
\* one service call (no retry), no reload, no 200 response.
C4_TxFailureRollsBack ==
  [][\A r \in Reqs :
       hist'[r].rollbacks > 0 =>
         /\ hist[r].rollbacks = 0 => db' = db
         /\ pc'[r] = "failed"
         /\ res'[r].error \in {"not_found", "not_allowed", "unexpected"}
         /\ res'[r].status # 200
         /\ ~tx'[r].open
         /\ hist'[r].commits = 0
         /\ hist'[r].opened = 1
         /\ hist'[r].mutations = 1
         /\ hist'[r].rollbacks = 1
         /\ hist'[r].retrieves = IF IsCustomer(r) THEN 1 ELSE 0]_vars

C4_Witness ==
  \E r, q \in Reqs :
    /\ IsOrderEdit(r) /\ res[r].error = "not_allowed" /\ hist[r].rollbacks = 1
    /\ IsCustomer(q) /\ res[q].error = "unexpected" /\ hist[q].rollbacks = 1
    /\ db.orderEdit.status = "declined" /\ db.order.total = 0

\* the concatenation of the fields with a comma between them
RECURSIVE JoinComma(_)
JoinComma(fields) ==
  IF Len(fields) = 0 THEN <<>>
  ELSE IF Len(fields) = 1 THEN fields[1]
  ELSE fields[1] \o <<",">> \o JoinComma(Tail(fields))

\* C5: a completed update-customer request reloaded once after its commit; the
\* relations of the reload are the comma-separated fields of expand when expand
\* is given and not empty, the default customer relations otherwise; the
\* response is 200 under the key customer.
C5_CustomerReloadRelations ==
  \A r \in Reqs :
    IsCustomer(r) /\ pc[r] = "done" =>
      /\ res[r].status = 200
      /\ res[r].key = "customer"
      /\ hist[r].commits = 1
      /\ hist[r].retrieves = 2
      /\ LET expand == inp[r].query.expand
             relations == res[r].relations
         IN IF expand # NoExpand /\ expand # <<>>
              THEN /\ JoinComma(relations) = expand
                   /\ \A i \in 1..Len(relations) :
                        \A j \in 1..Len(relations[i]) : relations[i][j] # ","
              ELSE relations = defaultAdminCustomersRelations

C5_Witness ==
  \E r \in Reqs :
    /\ IsCustomer(r) /\ pc[r] = "done"
    /\ inp[r].query.expand # NoExpand
    /\ Len(res[r].relations) = 2
    /\ res[r].relations # defaultAdminCustomersRelations

\* C6 (as stated): the return-reason handler validates the query, and reloads
\* with the relations of expand when expand is given and not empty, with the
\* default relations otherwise.
C6_ReasonReloadFollowsExpand ==
  \A r \in Reqs :
    IsReason(r) =>
      /\ inp[r].query.expand = NonStringExpand => pc[r] = "failed"
      /\ pc[r] = "done" =>
           res[r].relations = IF TruthyExpand(inp[r].query.expand)
                                THEN Split(inp[r].query.expand)
                                ELSE defaultAdminReturnReasonsRelations

\* C6 (amended): the return-reason handler never reads the query: a completed
\* request reloaded with the default return-reason fields and relations,
\* whatever expand was.
C6_ReasonReloadDefaults ==
  \A r \in Reqs :
    IsReason(r) /\ pc[r] = "done" =>
      /\ res[r].status = 200
      /\ res[r].key = "return_reason"
      /\ res[r].select = defaultAdminReturnReasonsFields
      /\ res[r].relations = defaultAdminReturnReasonsRelations
      /\ hist[r].commits = 1
      /\ hist[r].retrieves = 1

C6_Witness ==
  \E r \in Reqs :
    /\ IsReason(r) /\ pc[r] = "done"
    /\ inp[r].query.expand \in ExpandStrings
    /\ Len(inp[r].query.expand) > 0

\* C7: the actor passed to confirm is user.id when it is present, user.userId
\* when it is not; no request fails because of the actor; once the request
\* committed, the order edit is confirmed with that actor as confirmed_by.
C7_ConfirmedByResolvedActor ==
  \A r \in Reqs :
    IsOrderEdit(r) =>
      LET user == inp[r].user
          actor == IF user.present /\ user.id # Null THEN user.id
                   ELSE IF user.present THEN user.userId
                   ELSE Null
      IN /\ userId[r] = actor
         /\ pc[r] = "oe_commit" => tx[r].writes.confirmedBy = actor
         /\ hist[r].commits = 1 => /\ db.orderEdit.status = "confirmed"
                                   /\ db.orderEdit.confirmed_by = actor
         /\ pc[r] = "done" => res[r].entity.confirmed_by = actor
         /\ pc[r] = "failed" /\ hist[r].rollbacks = 0 => FALSE

C7_Witness ==
  \E r \in Reqs :
    /\ IsOrderEdit(r) /\ pc[r] = "done"
    /\ inp[r].user.present /\ inp[r].user.id = Null
    /\ res[r].entity.confirmed_by = "usr_2"

\* C8: a request whose body (customer, return reason) or query (customer) does
\* not pass validation fails with an invalid-request error before any service
\* call: no retrieve, no transaction, no update, no reload, no 200.
C8_ValidationFailureAborts ==
  \A r \in Reqs :
    /\ (\/ /\ IsCustomer(r)
           /\ \/ inp[r].body.email = NotAnEmail
              \/ inp[r].body.first_name = NotAString
              \/ inp[r].query.expand = NonStringExpand
        \/ IsReason(r) /\ inp[r].body.label = NotAString)
       => pc[r] = "failed" /\ res[r].error = "invalid_request"
    /\ res[r].error = "invalid_request"
       => /\ pc[r] = "failed"
          /\ res[r].status # 200
          /\ hist[r] = NoHist
          /\ ~tx[r].open

C8_Witness ==
  \E r \in Reqs :
    /\ IsCustomer(r)
    /\ inp[r].body.email = NotAnEmail
    /\ res[r].error = "invalid_request"
    /\ hist[r] = NoHist

\* C9: the reload is a read of the committed rows made after the commit of the
\* request and outside its transaction: the entity of the 200 response is
\* what is stored when the reload runs, writes of other requests included.
C9_ReloadReadsCommittedRows ==
  [][\A r \in Reqs :
       pc[r] # "done" /\ pc'[r] = "done" =>
         /\ ~tx[r].open
         /\ hist[r].commits = 1
         /\ res'[r].status = 200
         /\ res'[r].entity = CASE IsCustomer(r) -> db.customer
                               [] IsReason(r) -> db.reason
                               [] OTHER -> [status |-> db.orderEdit.status,
                                            confirmed_by |-> db.orderEdit.confirmed_by,
                                            total |-> db.order.total]]_vars

\* the response of r carries the email written by another request
C9_Witness ==
  \E r, q \in Reqs :
    /\ r # q
    /\ IsCustomer(r) /\ IsCustomer(q)
    /\ pc[r] = "done"
    /\ inp[r].body.email # Null
    /\ inp[q].body.email # Null
    /\ res[r].entity.email # inp[r].body.email
    /\ res[r].entity.email = inp[q].body.email

\* C10: the guard looks at the email of the body and at has_account as read,
\* not at the stored email: with has_account true every body with an email is
\* refused, the stored email included; a body without an email, and any body
\* when has_account is false, is never refused by the guard and goes on to the
\* transaction.
C10_GuardIgnoresStoredEmail ==
  \A r \in Reqs :
    GuardRead(r) =>
      /\ inp[r].body.email # Null /\ customer[r].has_account
           => pc[r] = "failed" /\ res[r].error = "invalid_data" /\ hist[r].opened = 0
      /\ inp[r].body.email = Null \/ ~customer[r].has_account
           => /\ res[r].error # "invalid_data"
              /\ pc[r] \in {"uc_begin", "uc_update", "uc_commit", "uc_reload", "done", "failed"}
              /\ pc[r] = "failed" => res[r].error = "unexpected" /\ hist[r].opened = 1
              /\ pc[r] # "uc_begin" => hist[r].opened = 1

C10_Witness ==
  \E r, q \in Reqs :
    /\ GuardRead(r)
    /\ customer[r].has_account
    /\ inp[r].body.email = customer[r].email
    /\ res[r].error = "invalid_data"
    /\ GuardRead(q)
    /\ customer[q].has_account
    /\ inp[q].body.email = Null
    /\ pc[q] = "done"

====
